---- MODULE Spec2Model ----
(***************************************************************************)
(* Operators of package itertools, each drained once by a consumer that    *)
(* may return false at any call.  A source is the counting production loop *)
(* of the termination tests (for i := range N { if !yield(i) {return};     *)
(* reads++ }) over a slice; a pull cursor is iter.Pull over such a source. *)
(* One action is one iteration of an operator's loop, together with the    *)
(* deferred stop() calls when that iteration returns.                      *)
(* The channel bridges to.Chan and from.Chan, from.DirWalk and the         *)
(* consumers of package to have specifications of their own (ToChanSpec,   *)
(* FromChanSpec, DirWalkSpec, ConsumeSpec) over the same variables.        *)
(***************************************************************************)
EXTENDS Integers, Sequences, FiniteSets, TLC

MaxLen == 4
MaxVal == 2
MaxN == 4
MaxSrcs == 3
MaxInner == 2
MaxBuf == 1
MaxStart == 1

Vals == 1..MaxVal

SeqsUpTo(S, k) == UNION {[1..m -> S] : m \in 0..k}

RECURSIVE SumTo(_, _)
SumTo(lens, k) == IF k = 0 THEN 0 ELSE SumTo(lens, k - 1) + lens[k]

\* The sources of TestFlatten and TestConcat: consecutive numbers 1, 2, ...
\* cut into inner sequences of the given lengths.
Chunks(lens) ==
    [s \in 1..Len(lens) |-> [k \in 1..lens[s] |-> SumTo(lens, s - 1) + k]]

Min2(a, b) == IF a < b THEN a ELSE b

Max2(a, b) == IF a > b THEN a ELSE b

CursorOps == {"TakeN", "SkipN", "SkipUntil", "PairWise", "Zip", "Deduplicate"}

CountOps == {"TakeN", "SkipN"}

PredicateOps == {"TakeWhile", "SkipUntil", "Filter", "Filter2"}

PushOps == {"TakeWhile", "Keys", "Values", "Entries", "Map", "Map2", "Map12",
            "Map21", "Filter", "Filter2", "Tap"}

NestedOps == {"Flatten", "FlattenSlice", "Flatten2", "Concat"}

\* The operators whose source is a sequence of sequences.
OuterOps == {"Flatten", "FlattenSlice", "Flatten2"}

Ops == CursorOps \cup PushOps \cup NestedOps

VARIABLES op, srcs, n, predicate, pc, source, i, prev, out, origin, stopped, late, observed,
          ctxDone, c, closed, buf, peer, got, recvs, cancelAt,
          startAccum, accum, ret

\* The state of the channel bridges to.Chan and from.Chan: the context, the
\* channel and the goroutine at its other end.
bridge == <<ctxDone, c, closed, buf, peer, got, recvs, cancelAt>>

\* The state of the consumers of package to: the start value and the
\* accumulator of Reduce and the value a consumer returned.
fold == <<startAccum, accum, ret>>

\* What no operator of package itertools changes: its arguments, and the
\* channel bridges and the consumers of package to, which it does not use.
params == <<op, srcs, n, predicate, bridge, fold>>

vars == <<op, srcs, n, predicate, pc, source, i, prev, out, origin, stopped, late, observed,
          ctxDone, c, closed, buf, peer, got, recvs, cancelAt,
          startAccum, accum, ret>>

src == srcs[1]

src1 == srcs[1]

src2 == srcs[2]

\* A source that has not been called yet and has no cursor.
NewSource == [st |-> "unstarted", produced |-> 0, reads |-> 0, falses |-> 0,
              pulls |-> 0, stops |-> 0]

\* The production loop runs on: a pending yield returns true and is counted,
\* then the loop yields its next element or, at the end of the slice, returns.
Resume(rec, seq) ==
    LET r1 == IF rec.st = "suspended" THEN [rec EXCEPT !.reads = @ + 1] ELSE rec
    IN  IF r1.produced < Len(seq)
        THEN [r1 EXCEPT !.st = "suspended", !.produced = @ + 1]
        ELSE [r1 EXCEPT !.st = "returned"]

\* The pending yield returns false and the production loop returns.
YieldFalse(rec) == [rec EXCEPT !.st = "returned", !.falses = @ + 1]

\* iter.Pull(src): a cursor is created, the source is not started.
Pull(rec) == [rec EXCEPT !.pulls = @ + 1]

\* next(): resumes the source unless the cursor is finished.
next(rec, seq) ==
    IF rec.st = "returned" \/ rec.stops > 0 THEN rec ELSE Resume(rec, seq)

\* ok of the (t, ok) pair next() returned, read off the state it left.
ok(rec) == rec.st = "suspended" /\ rec.stops = 0

\* stop(): a source suspended in a yield sees it return false and finishes;
\* a source that was never started is never run.
stop(rec) ==
    [(IF rec.st = "suspended" /\ rec.stops = 0 THEN YieldFalse(rec) ELSE rec)
        EXCEPT !.stops = @ + 1]

\* The consumer's callback is invoked with v and answers cont.
yield(v, org, cont) ==
    /\ out' = Append(out, v)
    /\ origin' = Append(origin, org)
    /\ late' = IF stopped THEN late + 1 ELSE late
    /\ stopped' = (stopped \/ ~cont)

NoYield == UNCHANGED <<out, origin, stopped, late>>

\* The transform of TestMap.
MapFn(t) == t * 2

\* strconv.Itoa on a one-digit number: the string of its digits.
Itoa(t) == <<t>>

RECURSIVE DeduplicateFrom(_, _, _)
\* The loop of Deduplicate as a function: the values forwarded from position
\* k of seq on, p being the value forwarded last.
DeduplicateFrom(seq, k, p) ==
    IF k > Len(seq) THEN <<>>
    ELSE IF seq[k] = p THEN DeduplicateFrom(seq, k + 1, p)
    ELSE <<seq[k]>> \o DeduplicateFrom(seq, k + 1, seq[k])

\* Deduplicate that remembers the first element without forwarding it.
Deduplicate_DropFirst(seq) ==
    IF Len(seq) = 0 THEN <<>> ELSE DeduplicateFrom(seq, 2, seq[1])

\* Deduplicate as a function of a slice source drained to the end.
Deduplicate(seq) ==
    IF Len(seq) = 0 THEN <<>> ELSE <<seq[1]>> \o DeduplicateFrom(seq, 2, seq[1])

\* A context that is not done, an empty open channel of capacity b and no
\* value received.
NewChan(b) ==
    /\ ctxDone = FALSE
    /\ c = <<>>
    /\ closed = FALSE
    /\ buf = b
    /\ peer = "idle"
    /\ got = <<>>
    /\ recvs = 0
    /\ cancelAt = -1

\* No consumer of package to has run.
NoFold ==
    /\ startAccum = 0
    /\ accum = 0
    /\ ret = <<>>

Init ==
    /\ op \in Ops
    /\ NewChan(0)
    /\ NoFold
    /\ srcs \in CASE op = "Zip" -> [1..2 -> SeqsUpTo(Vals, MaxLen)]
                  [] op \in NestedOps -> {Chunks(l) : l \in SeqsUpTo(0..MaxInner, MaxSrcs)}
                  [] OTHER -> [1..1 -> SeqsUpTo(Vals, MaxLen)]
    /\ n \in IF op \in CountOps THEN -1..MaxN ELSE {0}
    /\ predicate \in IF op \in PredicateOps THEN SUBSET Vals ELSE {{}}
    /\ pc = "entry"
    /\ source = [s \in (IF op \in OuterOps THEN 0 ELSE 1)..Len(srcs) |-> NewSource]
    /\ i = 0
    /\ prev = 0
    /\ out = <<>>
    /\ origin = <<>>
    /\ stopped = FALSE
    /\ late = 0
    /\ observed = <<>>

(***************************************************************************)
(* TakeN                                                                   *)
(***************************************************************************)
\* TakeN_Entry that fetches the first element ahead of the loop.
TakeN_Entry_Prefetch ==
    /\ op = "TakeN" /\ pc = "entry"
    /\ source' = [source EXCEPT ![1] = next(Pull(@), src)]
    /\ i' = 0
    /\ pc' = "loop"
    /\ NoYield
    /\ UNCHANGED <<params, prev, observed>>

TakeN_Entry ==
    /\ op = "TakeN" /\ pc = "entry"
    /\ source' = [source EXCEPT ![1] = Pull(@)]
    /\ i' = 0
    /\ pc' = "loop"
    /\ NoYield
    /\ UNCHANGED <<params, prev, observed>>

\* The loop condition the doc comment of TakeN suggests (myIterator[:n+1]).
TakeN_Cond_Inclusive(k, m) == k <= m

\* The loop condition of TakeN.
TakeN_Cond(k, m) == k < m

TakeN_Loop ==
    /\ op = "TakeN" /\ pc = "loop"
    /\ IF ~TakeN_Cond(i, n)
       THEN /\ source' = [source EXCEPT ![1] = stop(@)]
            /\ pc' = "done"
            /\ NoYield
            /\ UNCHANGED i
       ELSE LET r == next(source[1], src) IN
            IF ~ok(r)
            THEN /\ source' = [source EXCEPT ![1] = stop(r)]
                 /\ pc' = "done"
                 /\ NoYield
                 /\ UNCHANGED i
            ELSE \E cont \in BOOLEAN :
                 /\ yield(src[r.produced], {<<1, r.produced>>}, cont)
                 /\ IF cont
                    THEN /\ source' = [source EXCEPT ![1] = r]
                         /\ i' = i + 1
                         /\ pc' = "loop"
                    ELSE /\ source' = [source EXCEPT ![1] = stop(r)]
                         /\ pc' = "done"
                         /\ UNCHANGED i
    /\ UNCHANGED <<params, prev, observed>>

(***************************************************************************)
(* Map, Map2, Map12, Map21, Keys, Values, Entries, Filter, Filter2, Tap   *)
(***************************************************************************)
\* What each forwarding operator hands to the consumer for the element t at
\* position k of its source.  The Seq2 operators range over slices.All(src),
\* whose key is the 0-based index.  Map2 is given a transform that keeps the
\* key and doubles the value, Map12 the transform of TestMapFilterHigherArity,
\* (strconv.Itoa(i), i), Map21 one that joins key and value into a composite.
Transform(name, k, t) ==
    CASE name = "Map" -> MapFn(t)
      [] name = "Keys" -> k - 1
      [] name = "Values" -> t
      [] name = "Entries" -> [K |-> k - 1, V |-> t]
      [] name = "Map2" -> <<k - 1, MapFn(t)>>
      [] name = "Map12" -> <<Itoa(t), t>>
      [] name = "Map21" -> [K |-> k - 1, V |-> t]

\* Forward with the result of yield ignored: the loop goes on after the
\* consumer returned false.
Forward_IgnoreStop(name) ==
    /\ op = name /\ pc # "done"
    /\ LET r == Resume(source[1], src) IN
       IF r.st # "suspended"
       THEN /\ source' = [source EXCEPT ![1] = r]
            /\ pc' = "done"
            /\ NoYield
       ELSE \E cont \in BOOLEAN :
            /\ yield(Transform(name, r.produced, src[r.produced]), {<<1, r.produced>>}, cont)
            /\ source' = [source EXCEPT ![1] = r]
            /\ pc' = "loop"
    /\ UNCHANGED <<params, i, prev, observed>>

\* for t := range src { if v := predicate(t); !yield(v) { return } }: one
\* iteration of a loop that forwards the transform of every element.
Forward(name) ==
    /\ op = name /\ pc # "done"
    /\ LET r == Resume(source[1], src) IN
       IF r.st # "suspended"
       THEN /\ source' = [source EXCEPT ![1] = r]
            /\ pc' = "done"
            /\ NoYield
       ELSE \E cont \in BOOLEAN :
            /\ yield(Transform(name, r.produced, src[r.produced]), {<<1, r.produced>>}, cont)
            /\ IF cont
               THEN /\ source' = [source EXCEPT ![1] = r]
                    /\ pc' = "loop"
               ELSE /\ source' = [source EXCEPT ![1] = YieldFalse(r)]
                    /\ pc' = "done"
    /\ UNCHANGED <<params, i, prev, observed>>

Map_Loop == Forward("Map")

Keys_Loop == Forward("Keys")

Values_Loop == Forward("Values")

Entries_Loop == Forward("Entries")

Map2_Loop == Forward("Map2")

Map12_Loop == Forward("Map12")

Map21_Loop == Forward("Map21")

\* Filter_Loop that returns at a rejected element (the loop of TakeWhile).
Filter_Loop_Return ==
    /\ op = "Filter" /\ pc # "done"
    /\ LET r == Resume(source[1], src) IN
       IF r.st # "suspended"
       THEN /\ source' = [source EXCEPT ![1] = r]
            /\ pc' = "done"
            /\ NoYield
            /\ UNCHANGED observed
       ELSE LET t == src[r.produced] IN
            /\ observed' = Append(observed, t)
            /\ IF t \notin predicate
               THEN /\ source' = [source EXCEPT ![1] = YieldFalse(r)]
                    /\ pc' = "done"
                    /\ NoYield
               ELSE \E cont \in BOOLEAN :
                    /\ yield(t, {<<1, r.produced>>}, cont)
                    /\ IF cont
                       THEN /\ source' = [source EXCEPT ![1] = r]
                            /\ pc' = "loop"
                       ELSE /\ source' = [source EXCEPT ![1] = YieldFalse(r)]
                            /\ pc' = "done"
    /\ UNCHANGED <<params, i, prev>>

Filter_Loop ==
    /\ op = "Filter" /\ pc # "done"
    /\ LET r == Resume(source[1], src) IN
       IF r.st # "suspended"
       THEN /\ source' = [source EXCEPT ![1] = r]
            /\ pc' = "done"
            /\ NoYield
            /\ UNCHANGED observed
       ELSE LET t == src[r.produced] IN
            /\ observed' = Append(observed, t)
            /\ IF t \notin predicate
               THEN /\ source' = [source EXCEPT ![1] = r]
                    /\ pc' = "loop"
                    /\ NoYield
               ELSE \E cont \in BOOLEAN :
                    /\ yield(t, {<<1, r.produced>>}, cont)
                    /\ IF cont
                       THEN /\ source' = [source EXCEPT ![1] = r]
                            /\ pc' = "loop"
                       ELSE /\ source' = [source EXCEPT ![1] = YieldFalse(r)]
                            /\ pc' = "done"
    /\ UNCHANGED <<params, i, prev>>

Filter2_Loop ==
    /\ op = "Filter2" /\ pc # "done"
    /\ LET r == Resume(source[1], src) IN
       IF r.st # "suspended"
       THEN /\ source' = [source EXCEPT ![1] = r]
            /\ pc' = "done"
            /\ NoYield
            /\ UNCHANGED observed
       ELSE LET k == r.produced - 1
                v == src[r.produced] IN
            /\ observed' = Append(observed, <<k, v>>)
            /\ IF v \notin predicate
               THEN /\ source' = [source EXCEPT ![1] = r]
                    /\ pc' = "loop"
                    /\ NoYield
               ELSE \E cont \in BOOLEAN :
                    /\ yield(<<k, v>>, {<<1, r.produced>>}, cont)
                    /\ IF cont
                       THEN /\ source' = [source EXCEPT ![1] = r]
                            /\ pc' = "loop"
                       ELSE /\ source' = [source EXCEPT ![1] = YieldFalse(r)]
                            /\ pc' = "done"
    /\ UNCHANGED <<params, i, prev>>

\* observed is the log of the values peek was called with.
\* Tap_Loop with the result of yield ignored: the loop runs on after the
\* consumer returned false.
Tap_Loop_IgnoreStop ==
    /\ op = "Tap" /\ pc # "done"
    /\ LET r == Resume(source[1], src) IN
       IF r.st # "suspended"
       THEN /\ source' = [source EXCEPT ![1] = r]
            /\ pc' = "done"
            /\ NoYield
            /\ UNCHANGED observed
       ELSE LET t == src[r.produced] IN
            \E cont \in BOOLEAN :
            /\ observed' = Append(observed, t)
            /\ yield(t, {<<1, r.produced>>}, cont)
            /\ source' = [source EXCEPT ![1] = r]
            /\ pc' = "loop"
    /\ UNCHANGED <<params, i, prev>>

\* Tap_Loop with peek called after yield, and only if yield returned true.
Tap_Loop_PeekAfter ==
    /\ op = "Tap" /\ pc # "done"
    /\ LET r == Resume(source[1], src) IN
       IF r.st # "suspended"
       THEN /\ source' = [source EXCEPT ![1] = r]
            /\ pc' = "done"
            /\ NoYield
            /\ UNCHANGED observed
       ELSE LET t == src[r.produced] IN
            \E cont \in BOOLEAN :
            /\ yield(t, {<<1, r.produced>>}, cont)
            /\ IF cont
               THEN /\ observed' = Append(observed, t)
                    /\ source' = [source EXCEPT ![1] = r]
                    /\ pc' = "loop"
               ELSE /\ UNCHANGED observed
                    /\ source' = [source EXCEPT ![1] = YieldFalse(r)]
                    /\ pc' = "done"
    /\ UNCHANGED <<params, i, prev>>

Tap_Loop ==
    /\ op = "Tap" /\ pc # "done"
    /\ LET r == Resume(source[1], src) IN
       IF r.st # "suspended"
       THEN /\ source' = [source EXCEPT ![1] = r]
            /\ pc' = "done"
            /\ NoYield
            /\ UNCHANGED observed
       ELSE LET t == src[r.produced] IN
            \E cont \in BOOLEAN :
            /\ observed' = Append(observed, t)
            /\ yield(t, {<<1, r.produced>>}, cont)
            /\ IF cont
               THEN /\ source' = [source EXCEPT ![1] = r]
                    /\ pc' = "loop"
               ELSE /\ source' = [source EXCEPT ![1] = YieldFalse(r)]
                    /\ pc' = "done"
    /\ UNCHANGED <<params, i, prev>>

(***************************************************************************)
(* TakeWhile                                                               *)
(***************************************************************************)
\* TakeWhile_Loop that skips a failing element ("continue") instead of
\* returning at it.
TakeWhile_Loop_Continue ==
    /\ op = "TakeWhile" /\ pc # "done"
    /\ LET r == Resume(source[1], src) IN
       IF r.st # "suspended"
       THEN /\ source' = [source EXCEPT ![1] = r]
            /\ pc' = "done"
            /\ NoYield
            /\ UNCHANGED observed
       ELSE LET t == src[r.produced] IN
            /\ observed' = Append(observed, t)
            /\ IF t \notin predicate
               THEN /\ source' = [source EXCEPT ![1] = r]
                    /\ pc' = "loop"
                    /\ NoYield
               ELSE \E cont \in BOOLEAN :
                    /\ yield(t, {<<1, r.produced>>}, cont)
                    /\ IF cont
                       THEN /\ source' = [source EXCEPT ![1] = r]
                            /\ pc' = "loop"
                       ELSE /\ source' = [source EXCEPT ![1] = YieldFalse(r)]
                            /\ pc' = "done"
    /\ UNCHANGED <<params, i, prev>>

TakeWhile_Loop ==
    /\ op = "TakeWhile" /\ pc # "done"
    /\ LET r == Resume(source[1], src) IN
       IF r.st # "suspended"
       THEN /\ source' = [source EXCEPT ![1] = r]
            /\ pc' = "done"
            /\ NoYield
            /\ UNCHANGED observed
       ELSE LET t == src[r.produced] IN
            /\ observed' = Append(observed, t)
            /\ IF t \notin predicate
               THEN /\ source' = [source EXCEPT ![1] = YieldFalse(r)]
                    /\ pc' = "done"
                    /\ NoYield
               ELSE \E cont \in BOOLEAN :
                    /\ yield(t, {<<1, r.produced>>}, cont)
                    /\ IF cont
                       THEN /\ source' = [source EXCEPT ![1] = r]
                            /\ pc' = "loop"
                       ELSE /\ source' = [source EXCEPT ![1] = YieldFalse(r)]
                            /\ pc' = "done"
    /\ UNCHANGED <<params, i, prev>>

(***************************************************************************)
(* SkipN                                                                   *)
(***************************************************************************)
SkipN_Entry ==
    /\ op = "SkipN" /\ pc = "entry"
    /\ source' = [source EXCEPT ![1] = Pull(@)]
    /\ i' = 0
    /\ pc' = "loop"
    /\ NoYield
    /\ UNCHANGED <<params, prev, observed>>

\* SkipN_Skip with the loop running n+1 times ("for i := 0; i <= n; i++").
SkipN_Skip_Inclusive ==
    /\ op = "SkipN" /\ pc = "loop" /\ i <= n
    /\ LET r == next(source[1], src) IN
       IF ~ok(r)
       THEN /\ source' = [source EXCEPT ![1] = stop(r)]
            /\ pc' = "done"
            /\ UNCHANGED i
       ELSE /\ source' = [source EXCEPT ![1] = r]
            /\ i' = i + 1
            /\ pc' = "loop"
    /\ NoYield
    /\ UNCHANGED <<params, prev, observed>>

\* One iteration of "for range n": an element is fetched and dropped.
SkipN_Skip ==
    /\ op = "SkipN" /\ pc = "loop" /\ i < n
    /\ LET r == next(source[1], src) IN
       IF ~ok(r)
       THEN /\ source' = [source EXCEPT ![1] = stop(r)]
            /\ pc' = "done"
            /\ UNCHANGED i
       ELSE /\ source' = [source EXCEPT ![1] = r]
            /\ i' = i + 1
            /\ pc' = "loop"
    /\ NoYield
    /\ UNCHANGED <<params, prev, observed>>

\* One iteration of the forwarding loop, entered once n elements are dropped.
SkipN_Loop ==
    /\ op = "SkipN" /\ pc = "loop" /\ ~(i < n)
    /\ LET r == next(source[1], src) IN
       IF ~ok(r)
       THEN /\ source' = [source EXCEPT ![1] = stop(r)]
            /\ pc' = "done"
            /\ NoYield
       ELSE \E cont \in BOOLEAN :
            /\ yield(src[r.produced], {<<1, r.produced>>}, cont)
            /\ IF cont
               THEN /\ source' = [source EXCEPT ![1] = r]
                    /\ pc' = "loop"
               ELSE /\ source' = [source EXCEPT ![1] = stop(r)]
                    /\ pc' = "done"
    /\ UNCHANGED <<params, i, prev, observed>>

(***************************************************************************)
(* SkipUntil                                                               *)
(***************************************************************************)
SkipUntil_Entry ==
    /\ op = "SkipUntil" /\ pc = "entry"
    /\ source' = [source EXCEPT ![1] = Pull(@)]
    /\ pc' = "loop"
    /\ NoYield
    /\ UNCHANGED <<params, i, prev, observed>>

\* SkipUntil_Loop with the result of the first yield ignored ("yield(v);
\* break"): the second loop runs on after the consumer returned false.
SkipUntil_Loop_IgnoreStop ==
    /\ op = "SkipUntil" /\ pc = "loop"
    /\ LET r == next(source[1], src) IN
       IF ~ok(r)
       THEN /\ source' = [source EXCEPT ![1] = stop(r)]
            /\ pc' = "done"
            /\ NoYield
            /\ UNCHANGED observed
       ELSE LET v == src[r.produced] IN
            /\ observed' = Append(observed, v)
            /\ IF v \in predicate
               THEN \E cont \in BOOLEAN :
                    /\ yield(v, {<<1, r.produced>>}, cont)
                    /\ source' = [source EXCEPT ![1] = r]
                    /\ pc' = "loop2"
               ELSE /\ source' = [source EXCEPT ![1] = r]
                    /\ pc' = "loop"
                    /\ NoYield
    /\ UNCHANGED <<params, i, prev>>

\* One iteration of the first loop: predicate decides, the first accepted
\* value is forwarded and the loop is left.
SkipUntil_Loop ==
    /\ op = "SkipUntil" /\ pc = "loop"
    /\ LET r == next(source[1], src) IN
       IF ~ok(r)
       THEN /\ source' = [source EXCEPT ![1] = stop(r)]
            /\ pc' = "done"
            /\ NoYield
            /\ UNCHANGED observed
       ELSE LET v == src[r.produced] IN
            /\ observed' = Append(observed, v)
            /\ IF v \in predicate
               THEN \E cont \in BOOLEAN :
                    /\ yield(v, {<<1, r.produced>>}, cont)
                    /\ IF cont
                       THEN /\ source' = [source EXCEPT ![1] = r]
                            /\ pc' = "loop2"
                       ELSE /\ source' = [source EXCEPT ![1] = stop(r)]
                            /\ pc' = "done"
               ELSE /\ source' = [source EXCEPT ![1] = r]
                    /\ pc' = "loop"
                    /\ NoYield
    /\ UNCHANGED <<params, i, prev>>

\* SkipUntil_Loop2 that keeps asking predicate and forwards only what it
\* accepts (the loop of Filter).
SkipUntil_Loop2_Predicate ==
    /\ op = "SkipUntil" /\ pc = "loop2"
    /\ LET r == next(source[1], src) IN
       IF ~ok(r)
       THEN /\ source' = [source EXCEPT ![1] = stop(r)]
            /\ pc' = "done"
            /\ NoYield
            /\ UNCHANGED observed
       ELSE LET v == src[r.produced] IN
            /\ observed' = Append(observed, v)
            /\ IF v \in predicate
               THEN \E cont \in BOOLEAN :
                    /\ yield(v, {<<1, r.produced>>}, cont)
                    /\ IF cont
                       THEN /\ source' = [source EXCEPT ![1] = r]
                            /\ pc' = "loop2"
                       ELSE /\ source' = [source EXCEPT ![1] = stop(r)]
                            /\ pc' = "done"
               ELSE /\ source' = [source EXCEPT ![1] = r]
                    /\ pc' = "loop2"
                    /\ NoYield
    /\ UNCHANGED <<params, i, prev>>

\* One iteration of the second loop: everything is forwarded.
SkipUntil_Loop2 ==
    /\ op = "SkipUntil" /\ pc = "loop2"
    /\ LET r == next(source[1], src) IN
       IF ~ok(r)
       THEN /\ source' = [source EXCEPT ![1] = stop(r)]
            /\ pc' = "done"
            /\ NoYield
       ELSE \E cont \in BOOLEAN :
            /\ yield(src[r.produced], {<<1, r.produced>>}, cont)
            /\ IF cont
               THEN /\ source' = [source EXCEPT ![1] = r]
                    /\ pc' = "loop2"
               ELSE /\ source' = [source EXCEPT ![1] = stop(r)]
                    /\ pc' = "done"
    /\ UNCHANGED <<params, i, prev, observed>>

(***************************************************************************)
(* PairWise                                                                *)
(***************************************************************************)
\* PairWise_Entry without the fetch of the first element: prev starts as the
\* zero value.
PairWise_Entry_NoPrime ==
    /\ op = "PairWise" /\ pc = "entry"
    /\ source' = [source EXCEPT ![1] = Pull(@)]
    /\ prev' = 0
    /\ pc' = "loop"
    /\ NoYield
    /\ UNCHANGED <<params, i, observed>>

\* Code before the loop: the cursor is opened and prev is fetched.
PairWise_Entry ==
    /\ op = "PairWise" /\ pc = "entry"
    /\ LET r == next(Pull(source[1]), src) IN
       IF ~ok(r)
       THEN /\ source' = [source EXCEPT ![1] = stop(r)]
            /\ pc' = "done"
            /\ UNCHANGED prev
       ELSE /\ source' = [source EXCEPT ![1] = r]
            /\ prev' = src[r.produced]
            /\ pc' = "loop"
    /\ NoYield
    /\ UNCHANGED <<params, i, observed>>

\* PairWise_Loop without "prev = cur".
PairWise_Loop_NoShift ==
    /\ op = "PairWise" /\ pc = "loop"
    /\ LET r == next(source[1], src) IN
       IF ~ok(r)
       THEN /\ source' = [source EXCEPT ![1] = stop(r)]
            /\ pc' = "done"
            /\ NoYield
       ELSE LET cur == src[r.produced] IN
            \E cont \in BOOLEAN :
            /\ yield(<<prev, cur>>, {<<1, 1>>, <<1, r.produced>>}, cont)
            /\ IF cont
               THEN /\ source' = [source EXCEPT ![1] = r]
                    /\ pc' = "loop"
               ELSE /\ source' = [source EXCEPT ![1] = stop(r)]
                    /\ pc' = "done"
    /\ UNCHANGED <<params, i, prev, observed>>

\* PairWise_Loop that has fetched the element after cur by the time it
\* returns on the consumer's false.
PairWise_Loop_Lookahead ==
    /\ op = "PairWise" /\ pc = "loop"
    /\ LET r == next(source[1], src) IN
       IF ~ok(r)
       THEN /\ source' = [source EXCEPT ![1] = stop(r)]
            /\ pc' = "done"
            /\ NoYield
            /\ UNCHANGED prev
       ELSE LET cur == src[r.produced] IN
            \E cont \in BOOLEAN :
            /\ yield(<<prev, cur>>, {<<1, r.produced - 1>>, <<1, r.produced>>}, cont)
            /\ IF cont
               THEN /\ source' = [source EXCEPT ![1] = r]
                    /\ prev' = cur
                    /\ pc' = "loop"
               ELSE /\ source' = [source EXCEPT ![1] = stop(next(r, src))]
                    /\ pc' = "done"
                    /\ UNCHANGED prev
    /\ UNCHANGED <<params, i, observed>>

PairWise_Loop ==
    /\ op = "PairWise" /\ pc = "loop"
    /\ LET r == next(source[1], src) IN
       IF ~ok(r)
       THEN /\ source' = [source EXCEPT ![1] = stop(r)]
            /\ pc' = "done"
            /\ NoYield
            /\ UNCHANGED prev
       ELSE LET cur == src[r.produced] IN
            \E cont \in BOOLEAN :
            /\ yield(<<prev, cur>>, {<<1, r.produced - 1>>, <<1, r.produced>>}, cont)
            /\ IF cont
               THEN /\ source' = [source EXCEPT ![1] = r]
                    /\ prev' = cur
                    /\ pc' = "loop"
               ELSE /\ source' = [source EXCEPT ![1] = stop(r)]
                    /\ pc' = "done"
                    /\ UNCHANGED prev
    /\ UNCHANGED <<params, i, observed>>

(***************************************************************************)
(* Zip                                                                     *)
(***************************************************************************)
Zip_Entry ==
    /\ op = "Zip" /\ pc = "entry"
    /\ source' = [source EXCEPT ![1] = Pull(@), ![2] = Pull(@)]
    /\ pc' = "loop"
    /\ NoYield
    /\ UNCHANGED <<params, i, prev, observed>>

\* Zip_Return with "defer stop2()" left out.
Zip_Return_OneStop(r1, r2) == <<stop(r1), r2>>

\* The deferred stop2() and stop1() of Zip.
Zip_Return(r1, r2) == <<stop(r1), stop(r2)>>

\* Zip_Loop drawing both components from the first cursor (next1 written for
\* next2).
Zip_Loop_SameCursor ==
    /\ op = "Zip" /\ pc = "loop"
    /\ LET r1 == next(source[1], src1) IN
       IF ~ok(r1)
       THEN /\ source' = Zip_Return(r1, source[2])
            /\ pc' = "done"
            /\ NoYield
       ELSE LET r2 == next(r1, src1) IN
            IF ~ok(r2)
            THEN /\ source' = Zip_Return(r2, source[2])
                 /\ pc' = "done"
                 /\ NoYield
            ELSE \E cont \in BOOLEAN :
                 /\ yield(<<src1[r1.produced], src1[r2.produced]>>,
                          {<<1, r1.produced>>, <<1, r2.produced>>}, cont)
                 /\ IF cont
                    THEN /\ source' = <<r2, source[2]>>
                         /\ pc' = "loop"
                    ELSE /\ source' = Zip_Return(r2, source[2])
                         /\ pc' = "done"
    /\ UNCHANGED <<params, i, prev, observed>>

\* Zip_Loop that pairs the unmatched element of src1 with the zero value
\* when src2 is exhausted.
Zip_Loop_PadShort ==
    /\ op = "Zip" /\ pc = "loop"
    /\ LET r1 == next(source[1], src1) IN
       IF ~ok(r1)
       THEN /\ source' = Zip_Return(r1, source[2])
            /\ pc' = "done"
            /\ NoYield
       ELSE LET r2 == next(source[2], src2) IN
            IF ~ok(r2)
            THEN \E cont \in BOOLEAN :
                 /\ yield(<<src1[r1.produced], 0>>, {<<1, r1.produced>>}, cont)
                 /\ source' = Zip_Return(r1, r2)
                 /\ pc' = "done"
            ELSE \E cont \in BOOLEAN :
                 /\ yield(<<src1[r1.produced], src2[r2.produced]>>,
                          {<<1, r1.produced>>, <<2, r2.produced>>}, cont)
                 /\ IF cont
                    THEN /\ source' = <<r1, r2>>
                         /\ pc' = "loop"
                    ELSE /\ source' = Zip_Return(r1, r2)
                         /\ pc' = "done"
    /\ UNCHANGED <<params, i, prev, observed>>

\* Zip_Loop fetching from src2 before src1.
Zip_Loop_Src2First ==
    /\ op = "Zip" /\ pc = "loop"
    /\ LET r2 == next(source[2], src2) IN
       IF ~ok(r2)
       THEN /\ source' = Zip_Return(source[1], r2)
            /\ pc' = "done"
            /\ NoYield
       ELSE LET r1 == next(source[1], src1) IN
            IF ~ok(r1)
            THEN /\ source' = Zip_Return(r1, r2)
                 /\ pc' = "done"
                 /\ NoYield
            ELSE \E cont \in BOOLEAN :
                 /\ yield(<<src1[r1.produced], src2[r2.produced]>>,
                          {<<1, r1.produced>>, <<2, r2.produced>>}, cont)
                 /\ IF cont
                    THEN /\ source' = <<r1, r2>>
                         /\ pc' = "loop"
                    ELSE /\ source' = Zip_Return(r1, r2)
                         /\ pc' = "done"
    /\ UNCHANGED <<params, i, prev, observed>>

Zip_Loop ==
    /\ op = "Zip" /\ pc = "loop"
    /\ LET r1 == next(source[1], src1) IN
       IF ~ok(r1)
       THEN /\ source' = Zip_Return(r1, source[2])
            /\ pc' = "done"
            /\ NoYield
       ELSE LET r2 == next(source[2], src2) IN
            IF ~ok(r2)
            THEN /\ source' = Zip_Return(r1, r2)
                 /\ pc' = "done"
                 /\ NoYield
            ELSE \E cont \in BOOLEAN :
                 /\ yield(<<src1[r1.produced], src2[r2.produced]>>,
                          {<<1, r1.produced>>, <<2, r2.produced>>}, cont)
                 /\ IF cont
                    THEN /\ source' = <<r1, r2>>
                         /\ pc' = "loop"
                    ELSE /\ source' = Zip_Return(r1, r2)
                         /\ pc' = "done"
    /\ UNCHANGED <<params, i, prev, observed>>

(***************************************************************************)
(* Deduplicate                                                             *)
(***************************************************************************)
\* Code before the loop: the cursor is opened, the first element is fetched
\* and forwarded.
Deduplicate_Entry ==
    /\ op = "Deduplicate" /\ pc = "entry"
    /\ LET r == next(Pull(source[1]), src) IN
       IF ~ok(r)
       THEN /\ source' = [source EXCEPT ![1] = stop(r)]
            /\ pc' = "done"
            /\ NoYield
            /\ UNCHANGED prev
       ELSE \E cont \in BOOLEAN :
            /\ prev' = src[r.produced]
            /\ yield(src[r.produced], {<<1, r.produced>>}, cont)
            /\ IF cont
               THEN /\ source' = [source EXCEPT ![1] = r]
                    /\ pc' = "loop"
               ELSE /\ source' = [source EXCEPT ![1] = stop(r)]
                    /\ pc' = "done"
    /\ UNCHANGED <<params, i, observed>>

\* Deduplicate_Loop without "prev = t": every element is compared with the
\* first one.
Deduplicate_Loop_NoPrevUpdate ==
    /\ op = "Deduplicate" /\ pc = "loop"
    /\ LET r == next(source[1], src) IN
       IF ~ok(r)
       THEN /\ source' = [source EXCEPT ![1] = stop(r)]
            /\ pc' = "done"
            /\ NoYield
       ELSE LET t == src[r.produced] IN
            IF t = prev
            THEN /\ source' = [source EXCEPT ![1] = r]
                 /\ pc' = "loop"
                 /\ NoYield
            ELSE \E cont \in BOOLEAN :
                 /\ yield(t, {<<1, r.produced>>}, cont)
                 /\ IF cont
                    THEN /\ source' = [source EXCEPT ![1] = r]
                         /\ pc' = "loop"
                    ELSE /\ source' = [source EXCEPT ![1] = stop(r)]
                         /\ pc' = "done"
    /\ UNCHANGED <<params, i, prev, observed>>

Deduplicate_Loop ==
    /\ op = "Deduplicate" /\ pc = "loop"
    /\ LET r == next(source[1], src) IN
       IF ~ok(r)
       THEN /\ source' = [source EXCEPT ![1] = stop(r)]
            /\ pc' = "done"
            /\ NoYield
            /\ UNCHANGED prev
       ELSE LET t == src[r.produced] IN
            IF t = prev
            THEN /\ source' = [source EXCEPT ![1] = r]
                 /\ pc' = "loop"
                 /\ NoYield
                 /\ UNCHANGED prev
            ELSE \E cont \in BOOLEAN :
                 /\ prev' = t
                 /\ yield(t, {<<1, r.produced>>}, cont)
                 /\ IF cont
                    THEN /\ source' = [source EXCEPT ![1] = r]
                         /\ pc' = "loop"
                    ELSE /\ source' = [source EXCEPT ![1] = stop(r)]
                         /\ pc' = "done"
    /\ UNCHANGED <<params, i, observed>>

(***************************************************************************)
(* Flatten, Flatten2, FlattenSlice, Concat                                 *)
(* source[0] is the outer sequence, slices.Values(srcs) (for Flatten2 the  *)
(* producer of TestFlatten2, which pairs each inner sequence with its      *)
(* 0-based index); source[s] is the s-th inner sequence.                   *)
(***************************************************************************)
\* for i := range src: the outer loop takes its next inner sequence or ends.
Flatten_Outer ==
    /\ op \in {"Flatten", "Flatten2"} /\ pc \in {"entry", "loop"}
    /\ LET o == Resume(source[0], srcs) IN
       /\ source' = [source EXCEPT ![0] = o]
       /\ pc' = IF o.st = "suspended" THEN "inner" ELSE "done"
    /\ NoYield
    /\ UNCHANGED <<params, i, prev, observed>>

\* The value Flatten and Flatten2 hand to the consumer for element t of the
\* inner sequence at outer position s.
Flatten_Value(s, t) == IF op = "Flatten2" THEN <<s - 1, t>> ELSE t

\* Flatten_Inner with "break" for "return": a false from the consumer ends
\* the inner loop only and the outer loop goes on.
Flatten_Inner_Break ==
    /\ op \in {"Flatten", "Flatten2"} /\ pc = "inner"
    /\ LET s == source[0].produced
           r == Resume(source[s], srcs[s]) IN
       IF r.st # "suspended"
       THEN /\ source' = [source EXCEPT ![s] = r]
            /\ pc' = "loop"
            /\ NoYield
       ELSE \E cont \in BOOLEAN :
            /\ yield(Flatten_Value(s, srcs[s][r.produced]), {<<s, r.produced>>}, cont)
            /\ IF cont
               THEN /\ source' = [source EXCEPT ![s] = r]
                    /\ pc' = "inner"
               ELSE /\ source' = [source EXCEPT ![s] = YieldFalse(r)]
                    /\ pc' = "loop"
    /\ UNCHANGED <<params, i, prev, observed>>

\* for t := range i: one iteration of the inner loop; return leaves both loops.
Flatten_Inner ==
    /\ op \in {"Flatten", "Flatten2"} /\ pc = "inner"
    /\ LET s == source[0].produced
           r == Resume(source[s], srcs[s]) IN
       IF r.st # "suspended"
       THEN /\ source' = [source EXCEPT ![s] = r]
            /\ pc' = "loop"
            /\ NoYield
       ELSE \E cont \in BOOLEAN :
            /\ yield(Flatten_Value(s, srcs[s][r.produced]), {<<s, r.produced>>}, cont)
            /\ IF cont
               THEN /\ source' = [source EXCEPT ![s] = r]
                    /\ pc' = "inner"
               ELSE /\ source' = [source EXCEPT ![s] = YieldFalse(r),
                                                ![0] = YieldFalse(@)]
                    /\ pc' = "done"
    /\ UNCHANGED <<params, i, prev, observed>>

FlattenSlice_Outer ==
    /\ op = "FlattenSlice" /\ pc \in {"entry", "loop"}
    /\ LET o == Resume(source[0], srcs) IN
       /\ source' = [source EXCEPT ![0] = o]
       /\ pc' = IF o.st = "suspended" THEN "inner" ELSE "done"
    /\ i' = 0
    /\ NoYield
    /\ UNCHANGED <<params, prev, observed>>

\* for _, t := range i over a slice: i is the index of the inner loop.
FlattenSlice_Inner ==
    /\ op = "FlattenSlice" /\ pc = "inner"
    /\ LET s == source[0].produced IN
       IF ~(i < Len(srcs[s]))
       THEN /\ pc' = "loop"
            /\ NoYield
            /\ UNCHANGED <<source, i>>
       ELSE \E cont \in BOOLEAN :
            /\ yield(srcs[s][i + 1], {<<s, i + 1>>}, cont)
            /\ i' = i + 1
            /\ IF cont
               THEN /\ pc' = "inner"
                    /\ UNCHANGED source
               ELSE /\ source' = [source EXCEPT ![0] = YieldFalse(@)]
                    /\ pc' = "done"
    /\ UNCHANGED <<params, prev, observed>>

\* for _, src := range srcs { for t := range src {...} }: i is the index of
\* the outer loop over the slice of sources.
Concat_Loop ==
    /\ op = "Concat" /\ pc # "done"
    /\ IF ~(i < Len(srcs))
       THEN /\ pc' = "done"
            /\ NoYield
            /\ UNCHANGED <<source, i>>
       ELSE LET s == i + 1
                r == Resume(source[s], srcs[s]) IN
            IF r.st # "suspended"
            THEN /\ source' = [source EXCEPT ![s] = r]
                 /\ i' = i + 1
                 /\ pc' = "loop"
                 /\ NoYield
            ELSE \E cont \in BOOLEAN :
                 /\ yield(srcs[s][r.produced], {<<s, r.produced>>}, cont)
                 /\ UNCHANGED i
                 /\ IF cont
                    THEN /\ source' = [source EXCEPT ![s] = r]
                         /\ pc' = "loop"
                    ELSE /\ source' = [source EXCEPT ![s] = YieldFalse(r)]
                         /\ pc' = "done"
    /\ UNCHANGED <<params, prev, observed>>

Next ==
    \/ TakeN_Entry
    \/ TakeN_Loop
    \/ TakeWhile_Loop
    \/ SkipN_Entry
    \/ SkipN_Skip
    \/ SkipN_Loop
    \/ SkipUntil_Entry
    \/ SkipUntil_Loop
    \/ SkipUntil_Loop2
    \/ Keys_Loop
    \/ Values_Loop
    \/ Entries_Loop
    \/ Map_Loop
    \/ Map2_Loop
    \/ Map12_Loop
    \/ Map21_Loop
    \/ Filter_Loop
    \/ Filter2_Loop
    \/ Tap_Loop
    \/ PairWise_Entry
    \/ PairWise_Loop
    \/ Zip_Entry
    \/ Zip_Loop
    \/ Deduplicate_Entry
    \/ Deduplicate_Loop
    \/ Flatten_Outer
    \/ Flatten_Inner
    \/ FlattenSlice_Outer
    \/ FlattenSlice_Inner
    \/ Concat_Loop

Spec == Init /\ [][Next]_vars

(***************************************************************************)
(* to.Chan: the goroutine ranging over src and sending on c, and the       *)
(* receiver of TestChan at the other end of c.  A send on c completes by   *)
(* handing the value to a receiver blocked in <-c or, failing that, by     *)
(* taking a free buffer slot.  A select with several ready cases picks any *)
(* of them.                                                                *)
(***************************************************************************)
\* The slices of TestChan: 1, 2, ..., m.
Counting(m) == [k \in 1..m |-> k]

\* What the channel bridges leave alone.
unused == <<n, predicate, prev, observed, fold>>

ToChanInit ==
    /\ op = "to.Chan"
    /\ srcs \in {<<Counting(m)>> : m \in 0..MaxLen}
    /\ \E b \in 0..MaxBuf : NewChan(b)
    /\ NoFold
    /\ n = 0
    /\ predicate = {}
    /\ pc = "range"
    /\ source = <<NewSource>>
    /\ i = 0
    /\ prev = 0
    /\ out = <<>>
    /\ origin = <<>>
    /\ stopped = FALSE
    /\ late = 0
    /\ observed = <<>>

\* "for t := range src": the source runs to its next yield, or returns, the
\* goroutine function returns and the deferred close(c) runs.
ToChan_Range ==
    /\ op = "to.Chan" /\ pc = "range"
    /\ LET r == Resume(source[1], src) IN
       /\ source' = [source EXCEPT ![1] = r]
       /\ IF r.st = "suspended"
          THEN /\ pc' = "select1"
               /\ UNCHANGED closed
          ELSE /\ pc' = "done"
               /\ closed' = TRUE
    /\ UNCHANGED <<op, srcs, unused, i, ctxDone, c, buf, peer, got, recvs, cancelAt>>
    /\ NoYield

\* The first select: both its cases, <-ctx.Done() and default, have an
\* empty body, and the goroutine goes on to the second select.
ToChan_Select1 ==
    /\ op = "to.Chan" /\ pc = "select1"
    /\ pc' = "select2"
    /\ UNCHANGED <<op, srcs, unused, source, i, bridge>>
    /\ NoYield

\* c <- t can complete.
CanSend == peer = "recv" \/ Len(c) < buf

\* The second select with "default: return" for a case: a send that cannot
\* complete at once is given up.
ToChan_Done_Default ==
    /\ op = "to.Chan" /\ pc = "select2" /\ (ctxDone \/ ~CanSend)
    /\ source' = [source EXCEPT ![1] = YieldFalse(@)]
    /\ closed' = TRUE
    /\ pc' = "done"
    /\ UNCHANGED <<op, srcs, unused, i, ctxDone, c, buf, peer, got, recvs, cancelAt>>
    /\ NoYield

\* The second select with an empty body for <-ctx.Done(), as in the first
\* select: the value is dropped and the loop goes on.
ToChan_Done_NoReturn ==
    /\ op = "to.Chan" /\ pc = "select2" /\ ctxDone
    /\ pc' = "range"
    /\ UNCHANGED <<op, srcs, unused, source, i, bridge>>
    /\ NoYield

\* The second select, case <-ctx.Done(): return.  The loop body returns, so
\* the source's yield returns false, and the deferred close(c) runs.
ToChan_Done ==
    /\ op = "to.Chan" /\ pc = "select2" /\ ctxDone
    /\ source' = [source EXCEPT ![1] = YieldFalse(@)]
    /\ closed' = TRUE
    /\ pc' = "done"
    /\ UNCHANGED <<op, srcs, unused, i, ctxDone, c, buf, peer, got, recvs, cancelAt>>
    /\ NoYield

\* The second select, case c <- t.
ToChan_Send ==
    /\ op = "to.Chan" /\ pc = "select2" /\ CanSend
    /\ LET t == src[source[1].produced] IN
       IF peer = "recv"
       THEN /\ got' = Append(got, t)
            /\ peer' = "idle"
            /\ UNCHANGED c
       ELSE /\ c' = Append(c, t)
            /\ UNCHANGED <<got, peer>>
    /\ pc' = "range"
    /\ UNCHANGED <<op, srcs, unused, source, i, ctxDone, closed, buf, recvs, cancelAt>>
    /\ NoYield

\* The receiver runs "v, ok := <-c": it takes a buffered value, or finds c
\* closed and drained, or blocks.
Receiver_Recv ==
    /\ op = "to.Chan" /\ peer = "idle"
    /\ recvs' = recvs + 1
    /\ IF Len(c) > 0
       THEN /\ got' = Append(got, Head(c))
            /\ c' = Tail(c)
            /\ UNCHANGED peer
       ELSE /\ peer' = IF closed THEN "done" ELSE "recv"
            /\ UNCHANGED <<got, c>>
    /\ UNCHANGED <<op, srcs, unused, pc, source, i, ctxDone, closed, buf, cancelAt>>
    /\ NoYield

\* A receiver blocked in <-c is woken by close(c) with ok = false.
Receiver_Closed ==
    /\ op = "to.Chan" /\ peer = "recv" /\ closed
    /\ peer' = "done"
    /\ UNCHANGED <<op, srcs, unused, pc, source, i, ctxDone, c, closed, buf, got, recvs, cancelAt>>
    /\ NoYield

\* The receiver calls cancel(); cancelAt remembers how many values it had
\* received by then.
Receiver_Cancel ==
    /\ op = "to.Chan" /\ peer = "idle" /\ ~ctxDone
    /\ ctxDone' = TRUE
    /\ cancelAt' = Len(got)
    /\ UNCHANGED <<op, srcs, unused, pc, source, i, c, closed, buf, peer, got, recvs>>
    /\ NoYield

\* A step of the goroutine to.Chan spawns.
ToChan_Step ==
    \/ ToChan_Range
    \/ ToChan_Select1
    \/ ToChan_Done
    \/ ToChan_Send

ToChanNext ==
    \/ ToChan_Step
    \/ Receiver_Recv
    \/ Receiver_Closed
    \/ Receiver_Cancel

ToChanSpec == ToChanInit /\ [][ToChanNext]_vars

\* The goroutine is scheduled as long as it can take a step.
FairToChan == ToChanSpec /\ WF_vars(ToChan_Step)

(***************************************************************************)
(* from.Chan: one drain of the sequence from.Chan returns, with the        *)
(* goroutine of TestChan sending the elements of src on the channel.       *)
(***************************************************************************)
FromChanInit ==
    /\ op = "from.Chan"
    /\ srcs \in {<<Counting(m)>> : m \in 0..MaxLen}
    /\ \E b \in 0..MaxBuf : NewChan(b)
    /\ NoFold
    /\ n = 0
    /\ predicate = {}
    /\ pc = "select"
    /\ source = <<NewSource>>
    /\ i = 0
    /\ prev = 0
    /\ out = <<>>
    /\ origin = <<>>
    /\ stopped = FALSE
    /\ late = 0
    /\ observed = <<>>

\* A value can be received: one is buffered, or the sender is blocked in a
\* send.
Ready == Len(c) > 0 \/ (~closed /\ i < Len(src))

\* case <-ctx.Done() with an empty body: the loop goes round again.
FromChan_Done_NoReturn ==
    /\ op = "from.Chan" /\ pc = "select" /\ ctxDone
    /\ pc' = "select"
    /\ UNCHANGED <<op, srcs, unused, source, i, bridge>>
    /\ NoYield

\* case <-ctx.Done(): return.
FromChan_Done ==
    /\ op = "from.Chan" /\ pc = "select" /\ ctxDone
    /\ pc' = "done"
    /\ UNCHANGED <<op, srcs, unused, source, i, bridge>>
    /\ NoYield

\* FromChan_Recv with the result of yield ignored.
FromChan_Recv_IgnoreStop ==
    /\ op = "from.Chan" /\ pc = "select" /\ Ready
    /\ recvs' = recvs + 1
    /\ \E cont \in BOOLEAN :
       /\ IF Len(c) > 0
          THEN /\ yield(Head(c), {<<1, recvs + 1>>}, cont)
               /\ c' = Tail(c)
               /\ UNCHANGED i
          ELSE /\ yield(src[i + 1], {<<1, recvs + 1>>}, cont)
               /\ i' = i + 1
               /\ UNCHANGED c
       /\ pc' = "select"
    /\ UNCHANGED <<op, srcs, unused, source, ctxDone, closed, buf, peer, got, cancelAt>>

\* case t, ok := <-src with ok true: the value, buffered or handed over by
\* the blocked sender, goes to yield, and the drain returns if yield
\* returns false.
FromChan_Recv ==
    /\ op = "from.Chan" /\ pc = "select" /\ Ready
    /\ recvs' = recvs + 1
    /\ \E cont \in BOOLEAN :
       /\ IF Len(c) > 0
          THEN /\ yield(Head(c), {<<1, recvs + 1>>}, cont)
               /\ c' = Tail(c)
               /\ UNCHANGED i
          ELSE /\ yield(src[i + 1], {<<1, recvs + 1>>}, cont)
               /\ i' = i + 1
               /\ UNCHANGED c
       /\ pc' = IF cont THEN "select" ELSE "done"
    /\ UNCHANGED <<op, srcs, unused, source, ctxDone, closed, buf, peer, got, cancelAt>>

\* case t, ok := <-src with ok false: the channel is closed and drained.
FromChan_Closed ==
    /\ op = "from.Chan" /\ pc = "select" /\ closed /\ Len(c) = 0
    /\ pc' = "done"
    /\ UNCHANGED <<op, srcs, unused, source, i, bridge>>
    /\ NoYield

\* The sending goroutine's "srcc <- v" completes into a free buffer slot.
Sender_Send ==
    /\ op = "from.Chan" /\ ~closed /\ i < Len(src) /\ Len(c) < buf
    /\ c' = Append(c, src[i + 1])
    /\ i' = i + 1
    /\ UNCHANGED <<op, srcs, unused, pc, source, ctxDone, closed, buf, peer, got, recvs, cancelAt>>
    /\ NoYield

\* The sending goroutine calls close(srcc) and sends no more.
Sender_Close ==
    /\ op = "from.Chan" /\ ~closed
    /\ closed' = TRUE
    /\ UNCHANGED <<op, srcs, unused, pc, source, i, ctxDone, c, buf, peer, got, recvs, cancelAt>>
    /\ NoYield

\* The sending goroutine calls cancel(); cancelAt remembers how many values
\* the consumer had received by then.
Sender_Cancel ==
    /\ op = "from.Chan" /\ ~ctxDone
    /\ ctxDone' = TRUE
    /\ cancelAt' = Len(out)
    /\ UNCHANGED <<op, srcs, unused, pc, source, i, c, closed, buf, peer, got, recvs>>
    /\ NoYield

\* A round of the loop of from.Chan.
FromChan_Step ==
    \/ FromChan_Done
    \/ FromChan_Recv
    \/ FromChan_Closed

FromChanNext ==
    \/ FromChan_Step
    \/ Sender_Send
    \/ Sender_Close
    \/ Sender_Cancel

FromChanSpec == FromChanInit /\ [][FromChanNext]_vars

\* The drain is scheduled as long as its select has a ready case.
FairFromChan == FromChanSpec /\ WF_vars(FromChan_Step)

(***************************************************************************)
(* from.DirWalk: fs.WalkDir calls the function DirWalk hands it once per   *)
(* traversal step, with the error of that step, and aborts the traversal   *)
(* when the function returns a non-nil error.  src is the sequence of      *)
(* steps of the traversal, each a path and an error flag.                  *)
(***************************************************************************)
\* The traversals of up to MaxLen steps: step k has path k and carries an
\* error or not.
Walks == UNION {[1..m -> BOOLEAN] : m \in 0..MaxLen}

DirWalkInit ==
    /\ op = "DirWalk"
    /\ srcs \in {<<[k \in 1..Len(w) |-> <<k, w[k]>>]>> : w \in Walks}
    /\ NewChan(0)
    /\ NoFold
    /\ n = 0
    /\ predicate = {}
    /\ pc = "loop"
    /\ source = <<NewSource>>
    /\ i = 0
    /\ prev = 0
    /\ out = <<>>
    /\ origin = <<>>
    /\ stopped = FALSE
    /\ late = 0
    /\ observed = <<>>

\* DirWalk_Step with the function always returning nil: the traversal goes
\* on after the consumer returned false.
DirWalk_Step_NoAbort ==
    /\ op = "DirWalk" /\ pc # "done"
    /\ LET r == Resume(source[1], src) IN
       IF r.st # "suspended"
       THEN /\ source' = [source EXCEPT ![1] = r]
            /\ pc' = "done"
            /\ NoYield
       ELSE \E cont \in BOOLEAN :
            /\ yield(src[r.produced], {<<1, r.produced>>}, cont)
            /\ source' = [source EXCEPT ![1] = r]
            /\ pc' = "loop"
    /\ UNCHANGED <<params, i, prev, observed>>

\* DirWalk_Step that stops at a step carrying an error without forwarding
\* it ("if err != nil { return err }").
DirWalk_Step_StopOnError ==
    /\ op = "DirWalk" /\ pc # "done"
    /\ LET r == Resume(source[1], src) IN
       IF r.st # "suspended"
       THEN /\ source' = [source EXCEPT ![1] = r]
            /\ pc' = "done"
            /\ NoYield
       ELSE IF src[r.produced][2]
            THEN /\ source' = [source EXCEPT ![1] = YieldFalse(r)]
                 /\ pc' = "done"
                 /\ NoYield
            ELSE \E cont \in BOOLEAN :
                 /\ yield(src[r.produced], {<<1, r.produced>>}, cont)
                 /\ IF cont
                    THEN /\ source' = [source EXCEPT ![1] = r]
                         /\ pc' = "loop"
                    ELSE /\ source' = [source EXCEPT ![1] = YieldFalse(r)]
                         /\ pc' = "done"
    /\ UNCHANGED <<params, i, prev, observed>>

\* One call of the function by fs.WalkDir: the step and its error go to
\* yield; the function returns nil if yield returned true and the error
\* "consumer stopped" otherwise, which makes fs.WalkDir return.
DirWalk_Step ==
    /\ op = "DirWalk" /\ pc # "done"
    /\ LET r == Resume(source[1], src) IN
       IF r.st # "suspended"
       THEN /\ source' = [source EXCEPT ![1] = r]
            /\ pc' = "done"
            /\ NoYield
       ELSE \E cont \in BOOLEAN :
            /\ yield(src[r.produced], {<<1, r.produced>>}, cont)
            /\ IF cont
               THEN /\ source' = [source EXCEPT ![1] = r]
                    /\ pc' = "loop"
               ELSE /\ source' = [source EXCEPT ![1] = YieldFalse(r)]
                    /\ pc' = "done"
    /\ UNCHANGED <<params, i, prev, observed>>

DirWalkNext == DirWalk_Step

DirWalkSpec == DirWalkInit /\ [][DirWalkNext]_vars

(***************************************************************************)
(* The consumers First, Contains and Reduce of package to.  Each ranges    *)
(* over src itself; a return from the loop body makes the source's yield   *)
(* return false.  observed logs the calls of predicate.                    *)
(***************************************************************************)
Consumers == {"First", "Contains", "Reduce"}

ConsumeInit ==
    /\ op \in Consumers
    /\ srcs \in [1..1 -> SeqsUpTo(Vals, MaxLen)]
    /\ predicate \in SUBSET Vals
    /\ startAccum \in IF op = "Reduce" THEN 0..MaxStart ELSE {0}
    /\ accum = startAccum
    /\ ret = <<>>
    /\ NewChan(0)
    /\ n = 0
    /\ pc = "loop"
    /\ source = <<NewSource>>
    /\ i = 0
    /\ prev = 0
    /\ out = <<>>
    /\ origin = <<>>
    /\ stopped = FALSE
    /\ late = 0
    /\ observed = <<>>

\* What the consumers leave alone.
idle == <<op, srcs, n, predicate, bridge, startAccum, i, prev, out, origin, stopped, late>>

\* What First returns; Contains returns its second component.
Returned(t, found) == IF op = "Contains" THEN <<found>> ELSE <<t, found>>

\* First_Loop without the return at a match: the last match is remembered
\* and the source drained.
First_Loop_Last ==
    /\ op \in {"First", "Contains"} /\ pc # "done"
    /\ LET r == Resume(source[1], src) IN
       IF r.st # "suspended"
       THEN /\ source' = [source EXCEPT ![1] = r]
            /\ ret' = IF accum = 0 THEN Returned(0, FALSE) ELSE Returned(accum, TRUE)
            /\ pc' = "done"
            /\ UNCHANGED <<observed, accum>>
       ELSE LET t == src[r.produced] IN
            /\ observed' = Append(observed, t)
            /\ source' = [source EXCEPT ![1] = r]
            /\ accum' = IF t \in predicate THEN t ELSE accum
            /\ pc' = "loop"
            /\ UNCHANGED ret
    /\ UNCHANGED idle

\* One iteration of the loop of First (Contains calls First): predicate
\* decides on the element; a match is returned, the end of the source
\* returns the zero value and false.
First_Loop ==
    /\ op \in {"First", "Contains"} /\ pc # "done"
    /\ LET r == Resume(source[1], src) IN
       IF r.st # "suspended"
       THEN /\ source' = [source EXCEPT ![1] = r]
            /\ ret' = Returned(0, FALSE)
            /\ pc' = "done"
            /\ UNCHANGED observed
       ELSE LET t == src[r.produced] IN
            /\ observed' = Append(observed, t)
            /\ IF t \in predicate
               THEN /\ source' = [source EXCEPT ![1] = YieldFalse(r)]
                    /\ ret' = Returned(t, TRUE)
                    /\ pc' = "done"
               ELSE /\ source' = [source EXCEPT ![1] = r]
                    /\ pc' = "loop"
                    /\ UNCHANGED ret
    /\ UNCHANGED <<idle, accum>>

\* The step functions handed to Reduce: the sum of TestReduce, which asks
\* to stop at the elements of predicate.
Step(a, cur) == <<a + cur, cur \notin predicate>>

\* Reduce_Loop that returns the accumulator of the call before when the
\* step function returns false.
Reduce_Loop_PreviousAccum ==
    /\ op = "Reduce" /\ pc # "done"
    /\ LET r == Resume(source[1], src) IN
       IF r.st # "suspended"
       THEN /\ source' = [source EXCEPT ![1] = r]
            /\ ret' = <<accum>>
            /\ pc' = "done"
            /\ UNCHANGED <<observed, accum>>
       ELSE LET t == src[r.produced]
                s == Step(accum, t) IN
            /\ observed' = Append(observed, <<accum, t>>)
            /\ IF ~s[2]
               THEN /\ source' = [source EXCEPT ![1] = YieldFalse(r)]
                    /\ ret' = <<accum>>
                    /\ pc' = "done"
                    /\ UNCHANGED accum
               ELSE /\ accum' = s[1]
                    /\ source' = [source EXCEPT ![1] = r]
                    /\ pc' = "loop"
                    /\ UNCHANGED ret
    /\ UNCHANGED idle

\* One iteration of the loop of Reduce: accum, ok = predicate(accum, t), and
\* accum is returned if ok is false or the source has ended.
Reduce_Loop ==
    /\ op = "Reduce" /\ pc # "done"
    /\ LET r == Resume(source[1], src) IN
       IF r.st # "suspended"
       THEN /\ source' = [source EXCEPT ![1] = r]
            /\ ret' = <<accum>>
            /\ pc' = "done"
            /\ UNCHANGED <<observed, accum>>
       ELSE LET t == src[r.produced]
                s == Step(accum, t) IN
            /\ observed' = Append(observed, <<accum, t>>)
            /\ accum' = s[1]
            /\ IF ~s[2]
               THEN /\ source' = [source EXCEPT ![1] = YieldFalse(r)]
                    /\ ret' = <<s[1]>>
                    /\ pc' = "done"
               ELSE /\ source' = [source EXCEPT ![1] = r]
                    /\ pc' = "loop"
                    /\ UNCHANGED ret
    /\ UNCHANGED idle

ConsumeNext ==
    \/ First_Loop
    \/ Reduce_Loop

ConsumeSpec == ConsumeInit /\ [][ConsumeNext]_vars

(***************************************************************************)
(* Every operator and bridge that calls a consumer's yield.                *)
(***************************************************************************)
LibraryInit ==
    \/ Init
    \/ FromChanInit
    \/ DirWalkInit

LibraryNext ==
    \/ Next
    \/ FromChanNext
    \/ DirWalkNext

LibrarySpec == LibraryInit /\ [][LibraryNext]_vars

(***************************************************************************)
(* Properties                                                              *)
(***************************************************************************)
\* The number of elements the consumer has received.
writes == Len(out)

\* C1: for Map, Filter with an always-true predicate and TakeN with n > k,
\* once the consumer has returned false on the k-th element it received, the
\* consumer was invoked k times and the source produced exactly k elements:
\* k-1 of its yields returned true, the k-th returned false, and the source
\* has returned, so it produces no (k+1)-th element.
C1_EarlyStopAccounting ==
    (/\ stopped
     /\ \/ op = "Map"
        \/ op = "Filter" /\ predicate = Vals
        \/ op = "TakeN" /\ n > writes)
    => /\ pc = "done"
       /\ late = 0
       /\ source[1].produced = writes
       /\ source[1].reads = writes - 1
       /\ source[1].falses = 1
       /\ source[1].st = "returned"

C1_Witness ==
    /\ stopped /\ op = "Map" /\ writes = 2 /\ Len(src) = 3
    /\ source[1].produced = 2

\* C2: once the consumer of PairWise has returned false on the k-th pair, the
\* consumer was invoked k times and the source has produced exactly k+1
\* elements: k of its yields returned true and the (k+1)-th returned false.
C2_PairWiseEarlyStop ==
    (stopped /\ op = "PairWise")
    => /\ pc = "done"
       /\ late = 0
       /\ writes >= 1
       /\ source[1].produced = writes + 1
       /\ source[1].reads = writes
       /\ source[1].falses = 1
       /\ source[1].st = "returned"

C2_Witness ==
    /\ stopped /\ op = "PairWise" /\ writes = 2 /\ Len(src) = 3
    /\ source[1].reads = 2

\* C3: the operators built on a pull cursor open one cursor per source and
\* never close one more often than it was opened; when the drain has
\* returned, whatever the exit path, every cursor was closed exactly once and
\* no production loop is left suspended: a source that was started has
\* returned, after running to its end or after its pending yield returned
\* false.
C3_CursorsClosed ==
    op \in CursorOps =>
        \A s \in DOMAIN source :
            /\ source[s].stops <= source[s].pulls
            /\ source[s].pulls <= 1
            /\ source[s].falses <= 1
            /\ pc = "done" =>
                /\ source[s].pulls = 1
                /\ source[s].stops = 1
                /\ source[s].st # "suspended"
                /\ source[s].st = "unstarted" => source[s].produced = 0
                /\ source[s].st = "returned" =>
                       \/ source[s].falses = 1
                       \/ source[s].produced = Len(srcs[s])

C3_Witness ==
    /\ op = "Zip" /\ pc = "done" /\ stopped
    /\ source[1].stops = 1 /\ source[2].stops = 1
    /\ source[1].falses = 1 /\ source[2].falses = 1
    /\ source[2].produced < Len(src2)

\* The source element the consumer received last (source index, position).
LastDelivered == CHOOSE e \in origin[Len(origin)] : TRUE

\* C4: for every operator other than Zip and PairWise, once the consumer has
\* returned false it is not called again, and the last element the source
\* produced is the one just delivered: the source (for the nested operators
\* the current inner sequence and the outer one) stands at the delivered
\* element and no later source was started.
C4_NoAdvancePastDelivered ==
    (stopped /\ op \notin {"Zip", "PairWise"}) =>
        LET s == LastDelivered[1]
            k == LastDelivered[2]
        IN  /\ late = 0
            /\ Cardinality(origin[Len(origin)]) = 1
            /\ IF op = "FlattenSlice" THEN i = k ELSE source[s].produced = k
            /\ op \in OuterOps => source[0].produced = s
            /\ \A s2 \in DOMAIN source : s2 > s => source[s2].produced = 0

C4_Witness ==
    /\ stopped /\ op = "Deduplicate" /\ writes = 2
    /\ source[1].produced = 3 /\ Len(src) = 3

\* C5: TakeN forwards the elements of src in source order and never draws
\* more than n of them; drained to completion with n >= 0 it has forwarded
\* exactly the first min(n, len(src)) elements, hence all of src when
\* n >= len(src).
C5_TakeNPrefix ==
    op = "TakeN" =>
        /\ source[1].produced <= Max2(n, 0)
        /\ writes <= Min2(Max2(n, 0), Len(src))
        /\ out = SubSeq(src, 1, writes)
        /\ (pc = "done" /\ ~stopped /\ n >= 0) =>
               /\ out = SubSeq(src, 1, Min2(n, Len(src)))
               /\ n >= Len(src) => out = src

C5_Witness ==
    /\ op = "TakeN" /\ pc = "done" /\ ~stopped
    /\ n = 2 /\ Len(src) = 3 /\ writes = 2 /\ source[1].produced = 2

\* C6: for n <= 0 TakeN forwards nothing and the source function is never
\* called, although a cursor is opened and closed.
C6_TakeNNonPositive ==
    (op = "TakeN" /\ n <= 0) =>
        /\ out = <<>>
        /\ source[1].st = "unstarted"
        /\ source[1].produced = 0
        /\ source[1].reads = 0
        /\ source[1].falses = 0
        /\ pc = "done" => source[1].pulls = 1 /\ source[1].stops = 1

C6_Witness ==
    /\ op = "TakeN" /\ n <= 0 /\ pc = "done" /\ Len(src) > 0
    /\ source[1].pulls = 1 /\ source[1].stops = 1
    /\ source[1].st = "unstarted"

\* C7: the i-th pair Zip forwards is (src1[i], src2[i]), no source element
\* is part of two pairs, and drained to completion Zip has forwarded exactly
\* min(len(src1), len(src2)) pairs.
C7_ZipPairs ==
    op = "Zip" =>
        /\ \A j \in 1..writes :
               /\ j <= Len(src1) /\ j <= Len(src2)
               /\ out[j] = <<src1[j], src2[j]>>
               /\ origin[j] = {<<1, j>>, <<2, j>>}
        /\ \A j, k \in 1..writes : j # k => origin[j] \cap origin[k] = {}
        /\ (pc = "done" /\ ~stopped) => writes = Min2(Len(src1), Len(src2))

C7_Witness ==
    /\ op = "Zip" /\ pc = "done" /\ ~stopped
    /\ Len(src1) = 3 /\ Len(src2) = 2 /\ writes = 2

\* C8: no pair Zip forwards holds an element beyond position
\* min(len(src1), len(src2)) of either source, and when Zip has ended because
\* a source is exhausted, each source has produced at most one element more
\* than the number of pairs forwarded.
C8_ZipNoTrailing ==
    op = "Zip" =>
        /\ \A j \in 1..writes : \A e \in origin[j] :
               e[2] <= Min2(Len(src1), Len(src2))
        /\ \A j \in 1..writes : Cardinality(origin[j]) = 2
        /\ (pc = "done" /\ ~stopped) =>
               /\ source[1].produced <= writes + 1
               /\ source[2].produced <= writes + 1

C8_Witness ==
    /\ op = "Zip" /\ pc = "done" /\ ~stopped
    /\ Len(src1) = 3 /\ Len(src2) = 1
    /\ writes = 1 /\ source[1].produced = 2

\* How many of the pairs forwarded so far hold the k-th source element.
Occurrences(k) == Cardinality({j \in 1..writes : <<1, k>> \in origin[j]})

\* C9: the i-th pair PairWise forwards is (src[i], src[i+1]); drained to
\* completion over a source of length L it has forwarded max(L-1, 0) pairs,
\* the first and the last element are part of one pair and every other
\* element of two: second in pair k-1, then first in pair k.
C9_PairWiseWindow ==
    op = "PairWise" =>
        /\ \A j \in 1..writes :
               /\ j + 1 <= Len(src)
               /\ out[j] = <<src[j], src[j + 1]>>
               /\ origin[j] = {<<1, j>>, <<1, j + 1>>}
        /\ (pc = "done" /\ ~stopped) =>
               /\ writes = Max2(Len(src) - 1, 0)
               /\ \A k \in 1..Len(src) :
                      Occurrences(k) = IF Len(src) = 1 THEN 0
                                       ELSE IF k = 1 \/ k = Len(src) THEN 1
                                       ELSE 2

C9_Witness ==
    /\ op = "PairWise" /\ pc = "done" /\ ~stopped
    /\ Len(src) = 3 /\ writes = 2 /\ Occurrences(2) = 2

\* C10 as stated: when the consumer of PairWise stops after the k-th pair,
\* the source has already produced its element number k+2.
C10_Original ==
    (stopped /\ op = "PairWise") => source[1].produced >= writes + 2

\* C10 as amended: when the consumer of PairWise stops after the k-th pair,
\* the last element the source has produced is number k+1, the second
\* component of that pair; element number k+2 has not been produced.
C10_PairWiseNoLookahead ==
    (stopped /\ op = "PairWise") =>
        /\ source[1].produced < writes + 2
        /\ <<1, source[1].produced>> \in origin[writes]
        /\ out[writes][2] = src[source[1].produced]
        /\ \A e \in origin[writes] : e[2] <= source[1].produced

C10_Witness ==
    /\ stopped /\ op = "PairWise" /\ writes = 1 /\ Len(src) >= 3
    /\ source[1].produced = 2
\* a is an initial segment of b.
IsPrefix(a, b) == Len(a) <= Len(b) /\ a = SubSeq(b, 1, Len(a))

\* The positions of seq that start a maximal run of equal elements.
RunStarts(seq) == {k \in 1..Len(seq) : k = 1 \/ seq[k] # seq[k - 1]}

\* C11: Deduplicate forwards exactly the first element of every maximal run
\* of equal consecutive elements, in order: the j-th value forwarded is the
\* first element of the j-th run, the first element of the source is always
\* forwarded, no two adjacent outputs are equal, a run is forwarded even if
\* its value occurred in an earlier run, and a complete drain forwards one
\* value per run.
C11_DeduplicateRuns ==
    op = "Deduplicate" =>
        /\ \A j \in 1..writes :
             \E k \in RunStarts(src) :
                /\ origin[j] = {<<1, k>>}
                /\ out[j] = src[k]
                /\ Cardinality({m \in RunStarts(src) : m <= k}) = j
        /\ \A j \in 1..(writes - 1) : out[j] # out[j + 1]
        /\ source[1].produced > 0 => (writes >= 1 /\ out[1] = src[1])
        /\ (pc = "done" /\ ~stopped) => writes = Cardinality(RunStarts(src))

C11_Witness ==
    /\ op = "Deduplicate" /\ pc = "done" /\ ~stopped
    /\ src = <<1, 1, 2, 1>>
    /\ out = <<1, 2, 1>>

\* C12: Deduplicate is idempotent: what a complete drain of Deduplicate
\* forwarded is what the function Deduplicate gives for the source, and
\* applying Deduplicate to that output gives the same output again.
C12_DeduplicateIdempotent ==
    (op = "Deduplicate" /\ pc = "done" /\ ~stopped) =>
        /\ out = Deduplicate(src)
        /\ Deduplicate(out) = out
        /\ Deduplicate(Deduplicate(src)) = Deduplicate(src)

C12_Witness ==
    /\ op = "Deduplicate" /\ pc = "done" /\ ~stopped
    /\ src = <<1, 1, 2, 2>>
    /\ out = <<1, 2>>
    /\ Deduplicate(out) = <<1, 2>>

\* The number of elements SkipN drops.
Skipped == Min2(Max2(n, 0), Len(src))

\* C13: SkipN drops the first min(n, len(src)) elements and forwards the
\* rest in order: the j-th value forwarded is element Skipped + j, a source
\* shorter than n gives nothing, and n <= 0 gives the whole source.
C13_SkipN ==
    op = "SkipN" =>
        /\ IsPrefix(out, SubSeq(src, Skipped + 1, Len(src)))
        /\ \A j \in 1..writes : origin[j] = {<<1, Skipped + j>>}
        /\ i <= Skipped
        /\ (pc = "done" /\ ~stopped) => out = SubSeq(src, Skipped + 1, Len(src))
        /\ Len(src) < n => out = <<>>
        /\ (pc = "done" /\ ~stopped /\ n <= 0) => out = src

C13_Witness ==
    /\ op = "SkipN" /\ pc = "done" /\ ~stopped
    /\ n = 2 /\ src = <<1, 2, 2, 1>>
    /\ out = <<2, 1>>

\* The position of the first element of src that predicate accepts,
\* Len(src) + 1 if there is none.
FirstAccepted ==
    IF \E k \in 1..Len(src) : src[k] \in predicate
    THEN CHOOSE k \in 1..Len(src) :
            /\ src[k] \in predicate
            /\ \A m \in 1..(k - 1) : src[m] \notin predicate
    ELSE Len(src) + 1

\* C14: SkipUntil forwards the first accepted element and everything after
\* it, nothing if no element is accepted; predicate is called once on each
\* element up to and including the first accepted one and never afterwards.
C14_SkipUntil ==
    op = "SkipUntil" =>
        /\ IsPrefix(out, SubSeq(src, FirstAccepted, Len(src)))
        /\ IsPrefix(observed, SubSeq(src, 1, Min2(FirstAccepted, Len(src))))
        /\ writes >= 1 => Len(observed) = FirstAccepted
        /\ (pc = "done" /\ ~stopped) =>
              /\ out = SubSeq(src, FirstAccepted, Len(src))
              /\ Len(observed) = Min2(FirstAccepted, Len(src))

C14_Witness ==
    /\ op = "SkipUntil" /\ pc = "done" /\ ~stopped
    /\ src = <<1, 2, 1, 2>> /\ predicate = {2}
    /\ observed = <<1, 2>>
    /\ out = <<2, 1, 2>>

\* The position of the first element of src that predicate rejects,
\* Len(src) + 1 if there is none.
FirstRejected ==
    IF \E k \in 1..Len(src) : src[k] \notin predicate
    THEN CHOOSE k \in 1..Len(src) :
            /\ src[k] \notin predicate
            /\ \A m \in 1..(k - 1) : src[m] \in predicate
    ELSE Len(src) + 1

\* C15: TakeWhile forwards the longest prefix of accepted elements; at the
\* first rejected element it returns: that element is not forwarded,
\* predicate has been called once per element up to it and not beyond, and
\* the source has produced nothing after it.
C15_TakeWhile ==
    op = "TakeWhile" =>
        /\ IsPrefix(out, SubSeq(src, 1, FirstRejected - 1))
        /\ observed = SubSeq(src, 1, source[1].produced)
        /\ source[1].produced <= Min2(FirstRejected, Len(src))
        /\ (pc = "done" /\ ~stopped) =>
              /\ out = SubSeq(src, 1, FirstRejected - 1)
              /\ source[1].st = "returned"
              /\ source[1].produced = Min2(FirstRejected, Len(src))
              /\ FirstRejected <= Len(src) => source[1].falses = 1

C15_Witness ==
    /\ op = "TakeWhile" /\ pc = "done" /\ ~stopped
    /\ src = <<1, 1, 2, 1>> /\ predicate = {1}
    /\ out = <<1, 1>>
    /\ observed = <<1, 1, 2>>
    /\ source[1].produced = 3

\* C16: with an unbuffered channel, a receiver of to.Chan that cancels ctx
\* after its first value and receives until c is closed gets at most one
\* further value, two in all, as TestChan requires.
C16_AtMostTwo ==
    (op = "to.Chan" /\ buf = 0 /\ cancelAt = 1) => Len(got) <= 2

\* The goroutine of to.Chan is blocked in its send: ctx aside, no case of
\* the second select is ready.
Blocked == pc = "select2" /\ ~CanSend

\* C17: when ctx is done while the goroutine of to.Chan is blocked in its
\* send, the only step the goroutine can take gives the send up, makes the
\* source's yield return false and closes c; and unless a further receive
\* comes first, it takes that step: c is closed with the value unsent.
C17_CancelUnblocks ==
    /\ [][(op = "to.Chan" /\ ctxDone /\ Blocked /\ pc' # pc) =>
             /\ closed' /\ pc' = "done"
             /\ source'[1].st = "returned" /\ source'[1].falses = 1
             /\ got' = got /\ c' = c]_vars
    /\ \A g \in 0..(2 * MaxLen + 2) :
          (op = "to.Chan" /\ ctxDone /\ Blocked /\ recvs = g)
              ~> ((closed /\ source[1].falses = 1 /\ recvs = g) \/ recvs > g)

C17_Witness ==
    /\ op = "to.Chan" /\ ctxDone /\ closed
    /\ source[1].falses = 1
    /\ src = <<1, 2, 3>> /\ buf = 1
    /\ got = <<1>> /\ c = <<2>>
    /\ peer = "idle"

\* C18: what to.Chan has sent, received or still buffered, is a prefix of
\* the source in order; without cancellation the goroutine gives no send up,
\* c is closed only after the last element was sent, and a receiver that
\* has seen c closed has received exactly the source.
C18_ToChanDelivery ==
    op = "to.Chan" =>
        /\ got \o c = SubSeq(src, 1, Len(got) + Len(c))
        /\ ~ctxDone => source[1].falses = 0
        /\ (closed /\ source[1].falses = 0) => got \o c = src
        /\ peer = "done" => (closed /\ c = <<>>)
        /\ (peer = "done" /\ ~ctxDone) => got = src

C18_Witness ==
    /\ op = "to.Chan" /\ ~ctxDone /\ peer = "done"
    /\ buf = 0
    /\ got = <<1, 2, 3, 4>>

C20_FromChanDelivery ==
    /\ [](op = "from.Chan" =>
            /\ out = SubSeq(src, 1, Len(out))
            /\ recvs = Len(out)
            /\ Len(out) + Len(c) = i
            /\ (pc = "done" /\ ~ctxDone /\ ~stopped) =>
                  (closed /\ c = <<>> /\ out = SubSeq(src, 1, i))
            /\ stopped => (pc = "done" /\ late = 0))
    /\ [][(op = "from.Chan" /\ stopped) => (recvs' = recvs /\ out' = out)]_vars
    /\ (op = "from.Chan" /\ closed) ~> (pc = "done")

C20_Witness ==
    /\ op = "from.Chan" /\ pc = "done" /\ ~ctxDone /\ ~stopped
    /\ closed /\ buf = 0
    /\ out = <<1, 2, 3, 4>>

\* The position in src of the element on which the consumer returned
\* false: the element whose yield the source saw return false.
StopPoint == source[1].produced

\* C21 as claimed: once the consumer of Tap has stopped, the element at the
\* stop point and those after it have neither been observed by peek nor
\* been forwarded.
C21_Original ==
    (op = "Tap" /\ stopped) =>
        /\ Len(observed) < StopPoint
        /\ writes < StopPoint

\* C21: once the consumer of Tap has stopped, Tap has returned, and the
\* elements after the stop point have neither been observed by peek nor
\* been forwarded; the element at the stop point, on which the consumer
\* returned false, has been both.
C21_TapAfterStop ==
    (op = "Tap" /\ stopped) =>
        /\ pc = "done"
        /\ source[1].st = "returned" /\ source[1].falses = 1
        /\ observed = SubSeq(src, 1, StopPoint)
        /\ out = SubSeq(src, 1, StopPoint)
        /\ late = 0

C21_Witness ==
    /\ op = "Tap" /\ stopped
    /\ src = <<1, 2, 1, 2>>
    /\ StopPoint = 2
    /\ observed = <<1, 2>>

\* C22: peek is called exactly once for each element handed to the
\* consumer, in source order and together with the hand-over: the log of
\* peek is at every moment the sequence of elements handed over, the
\* element answered with false included, and nothing is added after it.
C22_TapPeeksForwarded ==
    op = "Tap" =>
        /\ observed = out
        /\ out = SubSeq(src, 1, writes)
        /\ \A j \in 1..writes : origin[j] = {<<1, j>>}
        /\ writes = source[1].produced
        /\ pc = "done" => (IF stopped THEN source[1].falses = 1 ELSE out = src)

C22_Witness ==
    /\ op = "Tap" /\ stopped /\ pc = "done"
    /\ Len(src) = 4
    /\ writes = 3
    /\ observed = SubSeq(src, 1, 3)

\* C26: Filter forwards the accepted elements of what the source has
\* produced, in source order, and has called predicate once on each
\* element produced, forwarded or not; drained to the end it has forwarded
\* exactly the accepted elements of src.
C26_Filter ==
    op = "Filter" =>
        /\ observed = SubSeq(src, 1, source[1].produced)
        /\ out = SelectSeq(observed, LAMBDA t : t \in predicate)
        /\ (pc = "done" /\ ~stopped) =>
              /\ observed = src
              /\ out = SelectSeq(src, LAMBDA t : t \in predicate)

C26_Witness ==
    /\ op = "Filter" /\ pc = "done" /\ ~stopped
    /\ src = <<1, 2, 1, 2>> /\ predicate = {2}
    /\ observed = <<1, 2, 1, 2>>
    /\ out = <<2, 2>>

\* The lengths of the inner sequences.
Lens == [s \in 1..Len(srcs) |-> Len(srcs[s])]

\* The place of element k of inner sequence s among all inner elements,
\* inner sequence m before inner sequence m + 1.
Rank(s, k) == SumTo(Lens, s - 1) + k

\* C23: Flatten, FlattenSlice, Flatten2 and Concat forward the inner
\* elements in order, inner sequence s before s + 1 (Flatten2 with the key
\* of the inner sequence), all of them on a complete drain; once the
\* consumer has returned false on element k of inner sequence s the
\* operator has returned, that inner sequence stands at k, the outer
\* sequence stands at s and has seen its yield return false, and no later
\* inner sequence has been started.
C23_FlattenOrder ==
    op \in NestedOps =>
        /\ \A j \in 1..writes :
             \E s \in 1..Len(srcs) : \E k \in 1..Len(srcs[s]) :
                /\ origin[j] = {<<s, k>>}
                /\ Rank(s, k) = j
                /\ out[j] = IF op = "Flatten2" THEN <<s - 1, srcs[s][k]>>
                                               ELSE srcs[s][k]
        /\ (pc = "done" /\ ~stopped) => writes = SumTo(Lens, Len(srcs))
        /\ stopped =>
              /\ pc = "done" /\ late = 0
              /\ \A s \in 1..Len(srcs) : \A k \in 1..Len(srcs[s]) :
                    origin[writes] = {<<s, k>>} =>
                       /\ op # "FlattenSlice" =>
                             (source[s].produced = k /\ source[s].st = "returned")
                       /\ op = "FlattenSlice" => i = k
                       /\ op \in OuterOps =>
                             /\ source[0].produced = s
                             /\ source[0].st = "returned"
                             /\ source[0].falses = 1
                       /\ \A m \in (s + 1)..Len(srcs) : source[m] = NewSource

C23_Witness ==
    /\ op = "Flatten2" /\ stopped
    /\ Lens = <<2, 1, 1>>
    /\ out = << <<0, 1>>, <<0, 2>>, <<1, 3>> >>
    /\ source[3] = NewSource

\* The slice expression seq[:m] of Go, for 0 <= m <= len(seq): the first m
\* elements.
SliceTo(seq, m) == SubSeq(seq, 1, m)

\* The slice expression seq[m:] of Go, for 0 <= m <= len(seq): all but the
\* first m elements.
SliceFrom(seq, m) == SubSeq(seq, m + 1, Len(seq))

C30_ZipAsymmetric ==
    (op = "Zip" /\ pc = "done" /\ ~stopped) =>
        /\ Len(src1) <= Len(src2) =>
              /\ source[1].produced = Len(src1)
              /\ source[2].produced = Len(src1)
              /\ writes = Len(src1)
              /\ Len(src1) = 0 => source[2].st = "unstarted"
        /\ Len(src2) < Len(src1) =>
              /\ source[1].produced = Len(src2) + 1
              /\ source[2].produced = Len(src2)
              /\ writes = Len(src2)

C30_Witness ==
    /\ op = "Zip" /\ pc = "done" /\ ~stopped
    /\ Len(src1) = 2 /\ Len(src2) = 4
    /\ source[1].produced = 2 /\ source[2].produced = 2
    /\ source[2].falses = 1

RECURSIVE FoldLeft(_, _, _)
\* The left fold of the step function over the first k elements of seq,
\* started at a.
FoldLeft(seq, a, k) ==
    IF k = 0 THEN a ELSE Step(FoldLeft(seq, a, k - 1), seq[k])[1]

\* The number of elements Reduce folds: up to and including the first one
\* at which the step function returns false.
Folded == Min2(FirstAccepted, Len(src))

\* C24: Reduce calls the step function on the elements in source order,
\* each time with the fold of the elements before; it returns the left fold
\* of the elements up to and including the first one at which the step
\* function returns false, the source having produced nothing beyond that
\* element; with a step function that never returns false that is the fold
\* of the whole source, and for an empty source the start value.
C24_Reduce ==
    op = "Reduce" =>
        /\ Len(observed) = source[1].produced
        /\ source[1].produced <= Folded
        /\ \A j \in 1..Len(observed) :
              observed[j] = <<FoldLeft(src, startAccum, j - 1), src[j]>>
        /\ pc = "done" =>
              /\ ret = <<FoldLeft(src, startAccum, Folded)>>
              /\ source[1].produced = Folded
              /\ source[1].st = "returned"
              /\ FirstAccepted <= Len(src) =>
                    (source[1].falses = 1 /\ ret # <<FoldLeft(src, startAccum, Folded - 1)>>)
              /\ FirstAccepted > Len(src) => ret = <<FoldLeft(src, startAccum, Len(src))>>
              /\ Len(src) = 0 => ret = <<startAccum>>

C24_Witness ==
    /\ op = "Reduce" /\ pc = "done"
    /\ src = <<1, 2, 1, 2>> /\ predicate = {2} /\ startAccum = 1
    /\ ret = <<4>>
    /\ source[1].produced = 2

\* C25: First returns the earliest element predicate accepts, with true,
\* having called predicate once on each element up to that one and with the
\* source stopped at it; without such an element it returns the zero value
\* and false after the whole source.  Contains returns the flag alone.
C25_First ==
    op \in {"First", "Contains"} =>
        /\ observed = SubSeq(src, 1, source[1].produced)
        /\ source[1].produced <= Min2(FirstAccepted, Len(src))
        /\ pc = "done" =>
              /\ source[1].st = "returned"
              /\ IF FirstAccepted <= Len(src)
                 THEN /\ ret = IF op = "First" THEN <<src[FirstAccepted], TRUE>>
                                              ELSE <<TRUE>>
                      /\ source[1].produced = FirstAccepted
                      /\ source[1].falses = 1
                 ELSE /\ ret = IF op = "First" THEN <<0, FALSE>> ELSE <<FALSE>>
                      /\ source[1].produced = Len(src)
                      /\ source[1].falses = 0

C25_Witness ==
    /\ op = "First" /\ pc = "done"
    /\ src = <<1, 2, 1, 2>> /\ predicate = {2}
    /\ ret = <<2, TRUE>>
    /\ observed = <<1, 2>>
    /\ source[1].produced = 2

\* C27: DirWalk hands every traversal step to the consumer with the error
\* it carries, in traversal order; as long as the consumer returns true the
\* traversal goes on, past steps that carry an error, to its end; once the
\* consumer has returned false the traversal is aborted at that step and
\* the consumer is not called again.
C27_DirWalk ==
    op = "DirWalk" =>
        /\ out = SubSeq(src, 1, writes)
        /\ writes = source[1].produced
        /\ (pc = "done" /\ ~stopped) => out = src
        /\ ~stopped => source[1].falses = 0
        /\ stopped =>
              /\ pc = "done" /\ late = 0
              /\ source[1].st = "returned" /\ source[1].falses = 1

C27_Witness ==
    /\ op = "DirWalk" /\ pc = "done" /\ ~stopped
    /\ src = << <<1, FALSE>>, <<2, TRUE>>, <<3, FALSE>>, <<4, FALSE>> >>
    /\ out = src

\* C29: in no drain of an operator, of from.Chan or of DirWalk is the
\* consumer's callback called after it has returned false: the drain has
\* returned by then.
C29_NoLateYield ==
    /\ late = 0
    /\ stopped => pc = "done"

C29_Witness ==
    /\ op = "DirWalk" /\ stopped /\ pc = "done"
    /\ Len(src) = 4 /\ writes = 2
    /\ late = 0

====
